---- MODULE Spec2Model ----
(***************************************************************************)
(* Quiz session lifecycle of the Quiz-maker application.                   *)
(*                                                                         *)
(* QuizScreen.tsx is a React function component.  Its state is the set of  *)
(* useState cells; every user event and every timer callback runs to       *)
(* completion on one thread, is followed by a render, and the effects      *)
(* whose dependencies changed run before the next event.  An action below  *)
(* is therefore one event together with the effects it triggers.           *)
(*                                                                         *)
(* Strings are TLA+ strings; \o, Len and SubSeq act on them as             *)
(* concatenation, length and substring.                                    *)
(***************************************************************************)
EXTENDS Integers, Sequences, FiniteSets, TLC

VARIABLES
    questions,        \* props.questions                     QuizScreen.tsx:6
    timeLimit,        \* props.timeLimit, minutes            QuizScreen.tsx:8
    answers,          \* useState<Record<number,string>>     QuizScreen.tsx:12
    currentIdx,       \* useState(0)                         QuizScreen.tsx:13
    timeLeft,         \* useState(timeLimit * 60)            QuizScreen.tsx:14
    sequenceItems,    \* useState<string[]>([])              QuizScreen.tsx:17
    matchSelections,  \* useState<Record<string,string>>     QuizScreen.tsx:21
    intervalActive,   \* the setInterval handle is scheduled QuizScreen.tsx:31
    phase,            \* "Active" while QuizScreen is mounted, then "Finalized"
    submissions,      \* the calls of props.onSubmit, in order
    interacted,       \* history: a user event has happened in this session
    apiKey,           \* process.env.API_KEY is set           geminiService.ts:166
    gradeData,        \* the parsed response of the grading service
    gradeOutcome,     \* what gradeQuiz returned or threw
    remoteCalls,      \* the service functions that have called ai.models.generateContent
    genRequest,       \* the configuration generateQuiz has been called with
    genData,          \* the response of the generation service
    genOutcome,       \* what generateQuiz returned or threw
    documents,        \* useState<UploadedFile[]>([])        UploadScreen.tsx:19
    selectedTypes,    \* useState<QuestionType[]>([])        UploadScreen.tsx:22
    autoDetect,       \* useState(true)                      UploadScreen.tsx:23
    error,            \* useState<string>('')                UploadScreen.tsx:27
    isProcessing,     \* useState(false)                     UploadScreen.tsx:28
    uploadPending,    \* the calls of handleFiles that wait for a file to be read
    uploadPhase,      \* "Configuring" while UploadScreen is mounted
    result,           \* props.result of ResultScreen        ResultScreen.tsx:7
    activeQuestionId, \* useState<number | null>(null)       ResultScreen.tsx:12
    chatInput,        \* useState('')                        ResultScreen.tsx:13
    chatResponse,     \* useState<string | null>(null)       ResultScreen.tsx:14
    isChatLoading,    \* useState(false)                     ResultScreen.tsx:15
    askPending,       \* the calls of handleAskAI that wait for explainQuestion
    lastExplain,      \* history: what the last explainQuestion returned or threw
    askRejected,      \* history: a call of handleAskAI has ended in a rejection
    chatSource        \* history: the identity of the question chatResponse was asked about

sessionVars == <<questions, timeLimit, answers, currentIdx, timeLeft, sequenceItems,
                 matchSelections, intervalActive, phase, submissions, interacted>>

gradeVars == <<apiKey, gradeData, gradeOutcome>>

genVars == <<genRequest, genData, genOutcome>>

uploadVars == <<documents, selectedTypes, autoDetect, error, isProcessing,
                uploadPending, uploadPhase>>

resultVars == <<result, activeQuestionId, chatInput, chatResponse, isChatLoading,
                askPending, lastExplain, askRejected, chatSource>>

\* The variables QuizScreen does not touch
offSession == <<gradeVars, remoteCalls, genVars, uploadVars, resultVars>>

\* The variables gradeQuiz does not touch
offGrade == <<sessionVars, apiKey, genVars, uploadVars, resultVars>>

\* The variables generateQuiz does not touch
offGenerate == <<sessionVars, gradeVars, uploadVars, resultVars>>

\* The variables UploadScreen and its parent do not touch
offUpload == <<sessionVars, gradeVars, remoteCalls, genData, resultVars>>

\* The variables ResultScreen does not touch
offResult == <<sessionVars, gradeVars, genVars, uploadVars>>

vars == <<sessionVars, gradeVars, remoteCalls, genVars, uploadVars, resultVars>>

-----------------------------------------------------------------------------
(* Bounds of the model and constants of the program *)

MaxTimeLimit == 1

SecondsPerMinute == 60

-----------------------------------------------------------------------------
(* JavaScript values *)

Digits == <<"0", "1", "2", "3", "4", "5", "6", "7", "8", "9">>

IsDigit(c) == \E i \in 1..10 : Digits[i] = c

DigitValue(c) == (CHOOSE i \in 1..10 : Digits[i] = c) - 1

CharAt(s, i) == SubSeq(s, i, i)

AllDigits(s) == \A i \in 1..Len(s) : IsDigit(CharAt(s, i))

RECURSIVE DigitsValue(_)
DigitsValue(s) ==
    IF s = "" THEN 0
    ELSE 10 * DigitsValue(SubSeq(s, 1, Len(s) - 1)) + DigitValue(CharAt(s, Len(s)))

\* A property key that is a canonical array index: own keys of an object are
\* enumerated with these first, in ascending numeric order, and the other
\* string keys after them in insertion order.
IsArrayIndex(k) ==
    /\ k # ""
    /\ AllDigits(k)
    /\ (Len(k) > 1 => CharAt(k, 1) # "0")
    /\ Len(k) <= 9

\* parseInt of a decimal key, with an optional sign.
ParseInt(s) ==
    IF s # "" /\ CharAt(s, 1) = "-"
    THEN 0 - DigitsValue(SubSeq(s, 2, Len(s)))
    ELSE DigitsValue(s)

\* String(n) for an integer n
NumberKey(n) == ToString(n)

\* An object is the sequence of its own entries [k, v] in enumeration order.
EmptyObject == <<>>

HasKey(obj, k) == \E i \in 1..Len(obj) : obj[i].k = k

\* obj[k], with "" standing for the falsy results of  obj[k] || ""
GetOrEmpty(obj, k) ==
    IF HasKey(obj, k) THEN obj[CHOOSE i \in 1..Len(obj) : obj[i].k = k].v ELSE ""

KeyBefore(a, b) ==
    \/ IsArrayIndex(a) /\ ~IsArrayIndex(b)
    \/ IsArrayIndex(a) /\ IsArrayIndex(b) /\ DigitsValue(a) < DigitsValue(b)

\* { ...obj, [k]: v }
SetKey(obj, k, v) ==
    IF HasKey(obj, k)
    THEN [i \in 1..Len(obj) |-> IF obj[i].k = k THEN [k |-> k, v |-> v] ELSE obj[i]]
    ELSE IF IsArrayIndex(k)
         THEN LET n == Cardinality({i \in 1..Len(obj) : KeyBefore(obj[i].k, k)})
              IN  SubSeq(obj, 1, n) \o <<[k |-> k, v |-> v]>> \o SubSeq(obj, n + 1, Len(obj))
         ELSE Append(obj, [k |-> k, v |-> v])

\* Array.prototype.join
RECURSIVE Join(_, _)
Join(list, sep) ==
    IF Len(list) = 0 THEN ""
    ELSE IF Len(list) = 1 THEN list[1]
    ELSE list[1] \o sep \o Join(Tail(list), sep)

\* The arrangements a sort with a random comparator can leave an array in.
Arrangements(list) ==
    { [i \in 1..Len(list) |-> list[p[i]]] : p \in Permutations(1..Len(list)) }

-----------------------------------------------------------------------------
(* Questions *)

MULTIPLE_CHOICE == "MULTIPLE_CHOICE"
TRUE_FALSE == "TRUE_FALSE"
FILL_IN_BLANK == "FILL_IN_BLANK"
SHORT_ANSWER == "SHORT_ANSWER"
MATCHING == "MATCHING"
SEQUENCING == "SEQUENCING"

\* An optional field of a question is present when it is a field of the record.
Has(q, f) == f \in DOMAIN q

\* Question lists the generation service can return under questionSchema, which
\* requires only id, type and text of a question.
QuizMixed ==
    << [id |-> 1, type |-> MULTIPLE_CHOICE, text |-> "t1",
        options |-> <<"x", "y">>, correctAnswer |-> "x"],
       [id |-> 2, type |-> SEQUENCING, text |-> "t2",
        sequencingItems |-> <<"a", "b">>],
       [id |-> 3, type |-> MATCHING, text |-> "t3",
        matchingPairs |-> <<[left |-> "p", right |-> "x"]>>] >>

QuizSequencing ==
    << [id |-> 1, type |-> SEQUENCING, text |-> "t1",
        sequencingItems |-> <<"a", "b", "c">>],
       [id |-> 2, type |-> SEQUENCING, text |-> "t2"] >>

QuizMatching ==
    << [id |-> 1, type |-> MATCHING, text |-> "t1",
        matchingPairs |-> <<[left |-> "p", right |-> "x"],
                            [left |-> "q", right |-> "x"]>>],
       [id |-> 2, type |-> TRUE_FALSE, text |-> "t2", correctAnswer |-> "True"] >>

QuizRepeatedId ==
    << [id |-> 1, type |-> SHORT_ANSWER, text |-> "t1", correctAnswer |-> "x"],
       [id |-> 1, type |-> FILL_IN_BLANK, text |-> "t2", correctAnswer |-> "x"] >>

QuizSets == {QuizMixed, QuizSequencing, QuizMatching, QuizRepeatedId}

\* What a textarea can hold after an input event
TextInputs == {"", "x"}

-----------------------------------------------------------------------------
(* QuizScreen: derived values and helpers *)

CurrentQuestion == questions[currentIdx + 1]

\* Faulty variant: the last two questions both count as the last one.
IsLastQuestionEarly == currentIdx >= Len(questions) - 2

IsLastQuestion == currentIdx = Len(questions) - 1

IsComplex(q) == q.type = SEQUENCING \/ q.type = MATCHING

\* Faulty variant: the items are joined by a comma.
EncodeSequenceComma(items) == Join(items, ", ")

EncodeSequence(items) == Join(items, " || ")

EncodeMatching(sel) ==
    Join([i \in 1..Len(sel) |-> sel[i].k \o " -> " \o sel[i].v], ", ")

\* setAnswers(prev => ({ ...prev, [currentQuestion.id]: val }))
HandleAnswer(prev, q, val) == SetKey(prev, NumberKey(q.id), val)

SaveComplexAnswer(prev, q, seq, sel) ==
    IF q.type = SEQUENCING THEN HandleAnswer(prev, q, EncodeSequence(seq))
    ELSE IF q.type = MATCHING THEN HandleAnswer(prev, q, EncodeMatching(sel))
    ELSE prev

\* Faulty variant: the submitted answer of the current question is the stored one.
CurrentAnswerStored(ans, q, seq, sel) == GetOrEmpty(ans, NumberKey(q.id))

CurrentAnswer(ans, q, seq, sel) ==
    IF q.type = SEQUENCING THEN EncodeSequence(seq)
    ELSE IF q.type = MATCHING THEN EncodeMatching(sel)
    ELSE GetOrEmpty(ans, NumberKey(q.id))

\* questions.forEach(q => { if (!found) formattedAnswers.push(blank) })
RECURSIVE EnsureAll(_, _)
EnsureAll(formatted, qs) ==
    IF qs = <<>> THEN formatted
    ELSE LET q == Head(qs)
             found == \E i \in 1..Len(formatted) : formatted[i].questionId = q.id
         IN  EnsureAll(IF found THEN formatted
                       ELSE Append(formatted, [questionId |-> q.id, answer |-> ""]),
                       Tail(qs))

GetFormattedAnswers(ans, q, seq, sel, qs) ==
    LET finalAnswersMap == SetKey(ans, NumberKey(q.id), CurrentAnswer(ans, q, seq, sel))
        formattedAnswers ==
            [i \in 1..Len(finalAnswersMap) |->
                [questionId |-> ParseInt(finalAnswersMap[i].k),
                 answer |-> finalAnswersMap[i].v]]
    IN  EnsureAll(formattedAnswers, qs)

\* The question-change effect: the values sequenceItems can be set to, and the
\* value of matchSelections, when q has become the current question.
InitSequenceItems(q, seq) ==
    IF q.type = SEQUENCING /\ Has(q, "sequencingItems")
    THEN Arrangements(q.sequencingItems)
    ELSE {seq}

InitMatchSelections(q, sel) ==
    IF q.type = MATCHING THEN EmptyObject ELSE sel

\* moveItem(index, direction), index counted from 0
Swap(list, i, j) ==
    [n \in 1..Len(list) |-> IF n = i THEN list[j] ELSE IF n = j THEN list[i] ELSE list[n]]

\* Faulty variant: the first item moves up to the end and the last down to the start.
MoveItemAround(list, index, direction) ==
    IF direction = "up" THEN Swap(list, index + 1, IF index > 0 THEN index ELSE Len(list))
    ELSE Swap(list, index + 1, IF index < Len(list) - 1 THEN index + 2 ELSE 1)

MoveItem(list, index, direction) ==
    IF direction = "up" /\ index > 0 THEN Swap(list, index + 1, index)
    ELSE IF direction = "down" /\ index < Len(list) - 1 THEN Swap(list, index + 1, index + 2)
    ELSE list

\* setMatchSelections(prev => ({ ...prev, [leftItem]: rightItem }))
HandleMatchSelect(prev, leftItem, rightItem) == SetKey(prev, leftItem, rightItem)

\* useState(timeLimit * 60)
InitialTimeLeft(limit) == limit * SecondsPerMinute

\* Faulty variant: the timer effect arms an interval whatever the limit.
TimerArmedAlways(limit) == TRUE

\* The timer effect arms an interval only for a positive limit.
TimerArmed(limit) == limit > 0

\* The updater of the interval callback: the next value of timeLeft, and
\* whether the callback clears its own interval and calls handleTimeUp.
TickValue(prev) == IF prev <= 1 THEN 0 ELSE prev - 1

TickClears(prev) == prev <= 1

\* Faulty variant: handleTimeUp submits what the first render's closure holds.
HandleTimeUpSubmits(qs) ==
    <<[by |-> "timeout",
       answers |-> GetFormattedAnswers(EmptyObject, qs[1], <<>>, EmptyObject, qs)]>>

\* handleTimeUp, called from the interval callback with the values of the
\* first render: the calls of onSubmit it makes.  Its body is comments only.
HandleTimeUp(qs) == <<>>

\* Faulty variant: the effect returns no cleanup, so the interval outlives the component.
TimerCleanupLeak(active) == active

\* The cleanup of the timer effect, run when the component unmounts.
TimerCleanup(active) == FALSE

\* Faulty variant: the timeout effect fires with one second left.
TimeoutFiresEarly(limit, left) == limit > 0 /\ left <= 1

\* The timeout effect runs after a render in which timeLeft changed.
TimeoutFires(limit, left) == limit > 0 /\ left = 0

\* Faulty variant: the timeout submits through the closure of the first render.
TimeoutAnswersStale(ans, idx, seq, sel, qs) ==
    GetFormattedAnswers(EmptyObject, qs[1], <<>>, EmptyObject, qs)

\* The answers the timeout effect submits: those of the render it runs after.
TimeoutAnswers(ans, idx, seq, sel, qs) ==
    GetFormattedAnswers(ans, qs[idx + 1], seq, sel, qs)

\* Faulty variant: the Previous button goes back to the first question.
PreviousIdxFirst(prev) == 0

\* The index the Previous button sets: Math.max(0, prev - 1)
PreviousIdx(prev) == IF prev - 1 > 0 THEN prev - 1 ELSE 0

-----------------------------------------------------------------------------
(* gradeQuiz *)

MaxGraded == 2

\* Scores are counted in half points: 0, 1 and 2 stand for 0, 0.5 and 1.
ScoreValues == {0, 1, 2}

\* The identities a graded record can carry: those of the questions above,
\* and one that no question has.
GradedIds == {1, 2, 9}

GradedRecords ==
    [id : GradedIds, isCorrect : BOOLEAN, score : ScoreValues,
     explanation : {"e"}, aiCorrection : {"c"}]

SeqsUpTo(S, n) == UNION {[1..m -> S] : m \in 0..n}

\* JSON.parse(response.text || "{}"): gradingSchema requires both fields of a
\* response; an empty text gives an object with neither, written [text |-> ""].
GradingResponses ==
    {[gradedQuestions |-> g, overallFeedback |-> f] :
        g \in SeqsUpTo(GradedRecords, MaxGraded), f \in {"", "fb"}}
    \cup {[text |-> ""]}

NoData == [none |-> TRUE]

\* Faulty variant: the credential is never looked at.
ApiKeyMissingNever(key) == FALSE

\* !process.env.API_KEY, the first statement of each service function
ApiKeyMissing(key) == ~key

Pending == [status |-> "pending"]

Thrown(message) == [status |-> "error", message |-> message]

\* originalQuestions.find(q => q.id === id), as the position of the question, 0 for none
FindQuestion(originalQuestions, id) ==
    IF \E i \in 1..Len(originalQuestions) : originalQuestions[i].id = id
    THEN CHOOSE i \in 1..Len(originalQuestions) :
            /\ originalQuestions[i].id = id
            /\ \A j \in 1..(i - 1) : originalQuestions[j].id # id
    ELSE 0

\* userAnswers.find(a => a.questionId === id)?.answer || ""
FindUserAnswer(userAnswers, id) ==
    IF \E i \in 1..Len(userAnswers) : userAnswers[i].questionId = id
    THEN userAnswers[CHOOSE i \in 1..Len(userAnswers) :
                        /\ userAnswers[i].questionId = id
                        /\ \A j \in 1..(i - 1) : userAnswers[j].questionId # id].answer
    ELSE ""

\* { ...original, userAnswer, isCorrect, score, explanation, aiCorrection }
MergeGraded(original, userAnswer, gq) ==
    [userAnswer |-> userAnswer, isCorrect |-> gq.isCorrect, score |-> gq.score,
     explanation |-> gq.explanation, aiCorrection |-> gq.aiCorrection] @@ original

\* The callback of data.gradedQuestions.map: the merged record, or the throw
MergeOne(originalQuestions, userAnswers, gq) ==
    LET i == FindQuestion(originalQuestions, gq.id)
    IN  IF i = 0 THEN Thrown("mismatch")
        ELSE [status |-> "ok",
              value |-> MergeGraded(originalQuestions[i],
                                    FindUserAnswer(userAnswers, gq.id), gq)]

\* Faulty variant: a record of an unknown identity is merged with an empty question
\* instead of being thrown on.
MergeAllLenient(originalQuestions, userAnswers, graded) ==
    [status |-> "ok",
     value |-> [n \in 1..Len(graded) |->
                  LET i == FindQuestion(originalQuestions, graded[n].id)
                  IN  IF i = 0
                      THEN MergeGraded([id |-> graded[n].id], "", graded[n])
                      ELSE MergeOne(originalQuestions, userAnswers, graded[n]).value]]

\* data.gradedQuestions.map(...): the merged list, or the first throw
MergeAll(originalQuestions, userAnswers, graded) ==
    LET merged == [n \in 1..Len(graded) |->
                      MergeOne(originalQuestions, userAnswers, graded[n])]
    IN  IF \E n \in 1..Len(graded) : merged[n].status = "error"
        THEN merged[CHOOSE n \in 1..Len(graded) :
                       /\ merged[n].status = "error"
                       /\ \A m \in 1..(n - 1) : merged[m].status = "ok"]
        ELSE [status |-> "ok", value |-> [n \in 1..Len(graded) |-> merged[n].value]]

\* mergedGradedQuestions.reduce((acc, curr) => acc + curr.score, 0)
RECURSIVE SumScores(_)
SumScores(merged) ==
    IF merged = <<>> THEN 0 ELSE merged[1].score + SumScores(Tail(merged))

\* data.overallFeedback || "Quiz completed."
FeedbackOf(data) ==
    IF Has(data, "overallFeedback") /\ data.overallFeedback # ""
    THEN data.overallFeedback
    ELSE "Quiz completed."

\* Faulty variant: the maximum is the number of records the service graded.
MaxScoreGraded(originalQuestions, merged) == Len(merged)

\* maxScore: originalQuestions.length
MaxScore(originalQuestions, merged) == Len(originalQuestions)

\* gradeQuiz(originalQuestions, userAnswers) when the service answers data
GradeQuiz(key, originalQuestions, userAnswers, data) ==
    IF ApiKeyMissing(key) THEN Thrown("API Key missing")
    ELSE IF ~Has(data, "gradedQuestions") THEN Thrown("TypeError")
    ELSE LET merged == MergeAll(originalQuestions, userAnswers, data.gradedQuestions)
         IN  IF merged.status = "error" THEN merged
             ELSE [status |-> "ok",
                   result |-> [totalScore |-> SumScores(merged.value),
                               maxScore |-> MaxScore(originalQuestions, merged.value),
                               gradedQuestions |-> merged.value,
                               overallFeedback |-> FeedbackOf(data)]]

-----------------------------------------------------------------------------
(* generateQuiz *)

MaxGenerated == 2

\* Questions the generation service can return under questionSchema
GeneratedQuestions ==
    { [id |-> 1, type |-> MULTIPLE_CHOICE, text |-> "t1",
       options |-> <<"x", "y", "x">>, correctAnswer |-> "x"],
      [id |-> 2, type |-> MULTIPLE_CHOICE, text |-> "t2", correctAnswer |-> "y"],
      [id |-> 2, type |-> TRUE_FALSE, text |-> "t3",
       options |-> <<"True", "False">>, correctAnswer |-> "True"],
      [id |-> 3, type |-> SEQUENCING, text |-> "t4", sequencingItems |-> <<"a", "b">>],
      [id |-> 4, type |-> MATCHING, text |-> "t5",
       matchingPairs |-> <<[left |-> "p", right |-> "x"]>>] }

\* What ai.models.generateContent can come back with: a rejection, a
\* response without text (parsed as {}), or a response under questionSchema.
GenerationResponses ==
    {[failure |-> TRUE], [text |-> ""]}
    \cup {[questions |-> qs] : qs \in SeqsUpTo(GeneratedQuestions, MaxGenerated)}

\* The loop of shuffleArray for the positions i, i-1, ..., 2 (counted from 1):
\* the arrays it can end with, j being any position up to i.
RECURSIVE FisherYates(_, _)
FisherYates(newArr, i) ==
    IF i <= 1 THEN {newArr}
    ELSE UNION {FisherYates(Swap(newArr, i, j), i - 1) : j \in 1..i}

\* Faulty variant: the exchange is written as two assignments in a row, so
\* position i receives the element of j and j keeps its own.
RECURSIVE FisherYatesOverwrite(_, _)
FisherYatesOverwrite(newArr, i) ==
    IF i <= 1 THEN {newArr}
    ELSE UNION {FisherYatesOverwrite([newArr EXCEPT ![i] = newArr[j]], i - 1) : j \in 1..i}

ShuffleArrayOverwrite(array) == FisherYatesOverwrite(array, Len(array))

\* shuffleArray(array): the arrays it can return
ShuffleArray(array) == FisherYates(array, Len(array))

\* The callback of data.questions.map: the questions it can return for q
NormalizeQuestion(q) ==
    IF q.type = MULTIPLE_CHOICE /\ Has(q, "options")
    THEN {[q EXCEPT !.options = o] : o \in ShuffleArray(q.options)}
    ELSE {q}

\* data.questions.map(...): the lists it can return
RECURSIVE NormalizeAll(_)
NormalizeAll(qs) ==
    IF qs = <<>> THEN {<<>>}
    ELSE {<<h>> \o t : h \in NormalizeQuestion(Head(qs)), t \in NormalizeAll(Tail(qs))}

\* !data.questions: an array, empty or not, is truthy
QuestionsMissing(data) == ~Has(data, "questions")

\* generateQuiz(...) when the service answers data: what it can return or throw
GenerateQuiz(key, data) ==
    IF ApiKeyMissing(key) THEN {Thrown("API Key missing")}
    ELSE IF Has(data, "failure") THEN {Thrown("remote failure")}
    ELSE IF QuestionsMissing(data) THEN {Thrown("Invalid response structure")}
    ELSE {[status |-> "ok", questions |-> n] : n \in NormalizeAll(data.questions)}

-----------------------------------------------------------------------------
(* UploadScreen: derived values and helpers *)

MaxFiles == 2

\* 10 * 1024 * 1024
MaxFileSize == 10 * 1024 * 1024

\* validTypes
ValidTypes == {"application/pdf", "image/jpeg", "image/png", "image/webp"}

\* Files a drop or the file input can deliver: name, media type, size in bytes
Files ==
    { [name |-> "a.pdf", type |-> "application/pdf", size |-> MaxFileSize],
      [name |-> "b.png", type |-> "image/png", size |-> 1],
      [name |-> "c.txt", type |-> "text/plain", size |-> 1],
      [name |-> "d.jpg", type |-> "image/jpeg", size |-> MaxFileSize + 1] }

\* Math.random().toString(36).substr(2, 9): the tokens it can give
DocIds == {"r1", "r2"}

\* The UploadedFile pushed for a file that has been read
Doc(file, id) ==
    [id |-> id, name |-> file.name, mimeType |-> file.type, base64 |-> "data:" \o file.name]

\* Faulty variant: the media type is not looked at.
InvalidTypeIgnored(file) == FALSE

\* !validTypes.includes(file.type)
InvalidType(file) == file.type \notin ValidTypes

\* Faulty variant: a file of exactly the maximum size counts as too large.
TooLargeInclusive(file) == file.size >= MaxFileSize

\* file.size > 10 * 1024 * 1024
TooLarge(file) == file.size > MaxFileSize

SkippedInvalid(file) ==
    "Skipped invalid file: " \o file.name \o ". Only PDF/Images allowed."

SkippedLarge(file) == "Skipped large file: " \o file.name \o ". Max 10MB."

ReadError == "Error reading file."

\* The loop of handleFiles from one file on, up to the next await or the end
\* of the loop: the files left, the first of which is being read, and the
\* value of error.
RECURSIVE ScanFiles(_, _)
ScanFiles(files, err) ==
    IF files = <<>> THEN [rest |-> <<>>, error |-> err]
    ELSE IF InvalidType(Head(files))
         THEN ScanFiles(Tail(files), SkippedInvalid(Head(files)))
    ELSE IF TooLarge(Head(files))
         THEN ScanFiles(Tail(files), SkippedLarge(Head(files)))
    ELSE [rest |-> files, error |-> err]

\* The type tiles the model clicks, out of QUESTION_TYPES
TypeTiles == {MULTIPLE_CHOICE, MATCHING}

\* prev.filter(t => t !== type)
Without(list, x) == SelectSeq(list, LAMBDA t : t # x)

Includes(list, x) == \E i \in 1..Len(list) : list[i] = x

\* toggleType(type): the new value of selectedTypes
ToggleTypeList(prev, type) ==
    IF Includes(prev, type) THEN Without(prev, type) ELSE Append(prev, type)

\* The state cells of UploadScreen that have no event in this model keep their
\* initial values.
InitialNumQuestions == 5

InitialDifficulty == "Medium"

InitialCustomInstructions == ""

InitialTimeLimit == 0

\* The QuizConfig handleSubmit passes to onStartQuiz
Config(docs, types, auto) ==
    [documents |-> docs, numQuestions |-> InitialNumQuestions, selectedTypes |-> types,
     autoDetect |-> auto, difficulty |-> InitialDifficulty,
     customInstructions |-> InitialCustomInstructions, timeLimit |-> InitialTimeLimit]

\* Faulty variant: only the document set is validated.
SubmitErrorDocumentsOnly(docs, types, auto) ==
    IF Len(docs) = 0 THEN "Please upload at least one lesson file." ELSE ""

\* The error handleSubmit reports, "" when it reports none and goes on
SubmitError(docs, types, auto) ==
    IF Len(docs) = 0 THEN "Please upload at least one lesson file."
    ELSE IF ~auto /\ Len(types) = 0
         THEN "Please select at least one question type or enable Auto-detect."
    ELSE ""

-----------------------------------------------------------------------------
(* explainQuestion and ResultScreen: derived values and helpers *)

MaxOutstanding == 2

\* A value of type T | null is <<>> for null and <<v>> for the value v.
Null == <<>>

Some(v) == <<v>>

\* String.prototype.trim, for the blank the inputs of the model can hold
RECURSIVE TrimStart(_)
TrimStart(str) ==
    IF str # "" /\ CharAt(str, 1) = " " THEN TrimStart(SubSeq(str, 2, Len(str))) ELSE str

RECURSIVE TrimEnd(_)
TrimEnd(str) ==
    IF str # "" /\ CharAt(str, Len(str)) = " "
    THEN TrimEnd(SubSeq(str, 1, Len(str) - 1))
    ELSE str

Trim(str) == TrimEnd(TrimStart(str))

\* What the query field can hold after an input event
ChatInputs == {"", " ", "why"}

\* What ai.models.generateContent can come back with for a follow-up: a
\* rejection, a response without text, or an explanation.
TutorResponses == {[failure |-> TRUE], [text |-> ""], [text |-> "because"]}

NoExplanation == "I couldn't generate an explanation at this time."

TutorUnavailable == "Sorry, I couldn't connect to the AI tutor right now."

\* explainQuestion(...) up to the remote call: the throw, if any
ExplainQuestionStart(key) ==
    IF ApiKeyMissing(key) THEN Thrown("API Key missing") ELSE Pending

\* explainQuestion(...) from the remote call on, when the service comes back
\* with response
ExplainQuestionEnd(response) ==
    IF Has(response, "failure") THEN Thrown("remote failure")
    ELSE [status |-> "ok",
          value |-> IF response.text # "" THEN response.text ELSE NoExplanation]

\* Faulty variant: handleAskAI has no catch clause.
HandleAskAIEndNoCatch(outcome, response) ==
    IF outcome.status = "ok"
    THEN [chatResponse |-> Some(outcome.value), isChatLoading |-> FALSE, rejected |-> FALSE]
    ELSE [chatResponse |-> response, isChatLoading |-> FALSE, rejected |-> TRUE]

\* handleAskAI from the end of explainQuestion on: try, catch and finally.
\* response is the value chatResponse has then.
HandleAskAIEnd(outcome, response) ==
    IF outcome.status = "ok"
    THEN [chatResponse |-> Some(outcome.value), isChatLoading |-> FALSE, rejected |-> FALSE]
    ELSE [chatResponse |-> Some(TutorUnavailable), isChatLoading |-> FALSE, rejected |-> FALSE]

\* The card of gradedQuestions[i] is expanded
Expanded(i) == activeQuestionId = Some(result.gradedQuestions[i].id)

\* The query field and the ask button are rendered in the card of
\* gradedQuestions[i]: {chatResponse ? ... : ...}
QueryShown(i) == Expanded(i) /\ chatResponse = Null

\* disabled={isChatLoading || !chatInput.trim()}
AskDisabled == isChatLoading \/ Trim(chatInput) = ""

-----------------------------------------------------------------------------
(* The parent of UploadScreen *)

\* props.onStartQuiz(config): the parent leaves the upload screen and calls
\* generateQuiz with the configuration.
ParentOnStartQuiz(config) ==
    /\ uploadPhase' = "Started"
    /\ genRequest' = config
    /\ genOutcome' = Pending

-----------------------------------------------------------------------------
(* The parent of QuizScreen *)

\* props.onSubmit(payload), for each call of one event in turn: the session
\* is finalized, the answer set passes to grading, and QuizScreen is
\* unmounted, which runs the timer effect's cleanup.
ParentOnSubmit(calls, active) ==
    /\ phase' = "Finalized"
    /\ submissions' = submissions \o calls
    /\ intervalActive' = TimerCleanup(active)

-----------------------------------------------------------------------------
(* The session *)

\* ResultScreen is not mounted
NoResult ==
    /\ result = NoData
    /\ activeQuestionId = Null
    /\ chatInput = ""
    /\ chatResponse = Null
    /\ isChatLoading = FALSE
    /\ askPending = <<>>
    /\ lastExplain = NoData
    /\ askRejected = FALSE
    /\ chatSource = Null

\* A session keeps no record of the generation that produced its questions,
\* and UploadScreen is no longer mounted.
NoGeneration ==
    /\ genRequest = NoData
    /\ genData = NoData
    /\ genOutcome = NoData
    /\ documents = <<>>
    /\ selectedTypes = <<>>
    /\ autoDetect = TRUE
    /\ error = ""
    /\ isProcessing = FALSE
    /\ uploadPending = <<>>
    /\ uploadPhase = "Unmounted"

GenerateDone == NoGeneration /\ NoResult

\* The state after the first render and its effects: the timer effect, the
\* question-change effect for questions[0], and the timeout effect.
Init ==
    /\ questions \in QuizSets
    /\ timeLimit \in 0..MaxTimeLimit
    /\ answers = EmptyObject
    /\ currentIdx = 0
    /\ timeLeft = InitialTimeLeft(timeLimit)
    /\ sequenceItems \in InitSequenceItems(questions[1], <<>>)
    /\ matchSelections = InitMatchSelections(questions[1], EmptyObject)
    /\ intervalActive = TimerArmed(timeLimit)
    /\ phase = "Active"
    /\ submissions = <<>>
    /\ interacted = FALSE
    /\ apiKey = TRUE
    /\ gradeData = NoData
    /\ gradeOutcome = Pending
    /\ remoteCalls = {}
    /\ GenerateDone

\* The values the input controls of a simple question hand to handleAnswer
SimpleInputs(q) ==
    IF q.type = MULTIPLE_CHOICE
    THEN IF Has(q, "options") THEN {q.options[i] : i \in 1..Len(q.options)} ELSE {}
    ELSE IF q.type = TRUE_FALSE THEN {"True", "False"}
    ELSE IF IsComplex(q) THEN {}
    ELSE TextInputs

\* record-answer: an option button or the textarea calls handleAnswer(val)
RecordAnswer ==
    /\ UNCHANGED offSession
    /\ phase = "Active"
    /\ \E val \in SimpleInputs(CurrentQuestion) :
          answers' = HandleAnswer(answers, CurrentQuestion, val)
    /\ interacted' = TRUE
    /\ UNCHANGED <<questions, timeLimit, currentIdx, timeLeft, sequenceItems,
                   matchSelections, intervalActive, phase, submissions>>

\* The arrow button of the item at index is disabled: the up arrow of the
\* first item and the down arrow of the last
ArrowDisabled(list, index, direction) ==
    \/ direction = "up" /\ index = 0
    \/ direction = "down" /\ index = Len(list) - 1

\* an arrow button of a sequencing item calls moveItem(idx, direction)
MoveItemClick ==
    /\ UNCHANGED offSession
    /\ phase = "Active"
    /\ CurrentQuestion.type = SEQUENCING
    /\ \E index \in 0..(Len(sequenceItems) - 1), direction \in {"up", "down"} :
          /\ ~ArrowDisabled(sequenceItems, index, direction)
          /\ sequenceItems' = MoveItem(sequenceItems, index, direction)
    /\ interacted' = TRUE
    /\ UNCHANGED <<questions, timeLimit, answers, currentIdx, timeLeft,
                   matchSelections, intervalActive, phase, submissions>>

\* The values of the entries of a matching question's select: the placeholder
\* and the right items
SelectValues(q) ==
    IF Has(q, "matchingPairs")
    THEN {""} \cup {q.matchingPairs[i].right : i \in 1..Len(q.matchingPairs)}
    ELSE {}

LeftItems(q) ==
    IF Has(q, "matchingPairs")
    THEN {q.matchingPairs[i].left : i \in 1..Len(q.matchingPairs)}
    ELSE {}

\* a select of a matching pair shows matchSelections[pair.left] || "" and, when
\* another of its entries is chosen, calls handleMatchSelect(pair.left, value)
MatchSelect ==
    /\ UNCHANGED offSession
    /\ phase = "Active"
    /\ CurrentQuestion.type = MATCHING
    /\ \E leftItem \in LeftItems(CurrentQuestion), rightItem \in SelectValues(CurrentQuestion) :
          /\ rightItem # GetOrEmpty(matchSelections, leftItem)
          /\ matchSelections' = HandleMatchSelect(matchSelections, leftItem, rightItem)
    /\ interacted' = TRUE
    /\ UNCHANGED <<questions, timeLimit, answers, currentIdx, timeLeft,
                   sequenceItems, intervalActive, phase, submissions>>

\* advance: handleNext, then the question-change effect for the new question
HandleNext ==
    /\ UNCHANGED offSession
    /\ phase = "Active"
    /\ answers' = SaveComplexAnswer(answers, CurrentQuestion, sequenceItems, matchSelections)
    /\ interacted' = TRUE
    /\ IF IsLastQuestion
       THEN /\ ParentOnSubmit(<<[by |-> "next",
                                 answers |-> GetFormattedAnswers(answers, CurrentQuestion,
                                                sequenceItems, matchSelections, questions)]>>,
                                intervalActive)
            /\ UNCHANGED <<currentIdx, sequenceItems, matchSelections>>
       ELSE /\ currentIdx' = currentIdx + 1
            /\ sequenceItems' \in InitSequenceItems(questions[currentIdx' + 1], sequenceItems)
            /\ matchSelections' = InitMatchSelections(questions[currentIdx' + 1], matchSelections)
            /\ UNCHANGED <<intervalActive, phase, submissions>>
    /\ UNCHANGED <<questions, timeLimit, timeLeft>>

\* retreat: the Previous button, disabled on the first question, then the
\* question-change effect when the current question has changed
Previous ==
    /\ UNCHANGED offSession
    /\ phase = "Active"
    /\ currentIdx # 0
    /\ currentIdx' = PreviousIdx(currentIdx)
    /\ interacted' = TRUE
    /\ IF currentIdx' # currentIdx
       THEN /\ sequenceItems' \in InitSequenceItems(questions[currentIdx' + 1], sequenceItems)
            /\ matchSelections' = InitMatchSelections(questions[currentIdx' + 1], matchSelections)
       ELSE UNCHANGED <<sequenceItems, matchSelections>>
    /\ UNCHANGED <<questions, timeLimit, answers, timeLeft, intervalActive, phase, submissions>>

\* The onSubmit calls of one tick: those of handleTimeUp, then that of the
\* timeout effect when timeLeft has changed to zero.
TickCalls(left) ==
    (IF TickClears(timeLeft) THEN HandleTimeUp(questions) ELSE <<>>)
    \o (IF left # timeLeft /\ TimeoutFires(timeLimit, left)
        THEN <<[by |-> "timeout",
                answers |-> TimeoutAnswers(answers, currentIdx, sequenceItems,
                                           matchSelections, questions)]>>
        ELSE <<>>)

\* The interval callback, then the timeout effect.  On an unmounted component
\* the state update is dropped.
Tick ==
    /\ UNCHANGED offSession
    /\ intervalActive
    /\ IF phase = "Active"
       THEN /\ timeLeft' = TickValue(timeLeft)
            /\ IF TickCalls(timeLeft') # <<>>
               THEN ParentOnSubmit(TickCalls(timeLeft'),
                                   intervalActive /\ ~TickClears(timeLeft))
               ELSE /\ intervalActive' = (intervalActive /\ ~TickClears(timeLeft))
                    /\ UNCHANGED <<phase, submissions>>
       ELSE UNCHANGED <<timeLeft, intervalActive, phase, submissions>>
    /\ UNCHANGED <<questions, timeLimit, answers, currentIdx, sequenceItems,
                   matchSelections, interacted>>

Next ==
    \/ RecordAnswer
    \/ MoveItemClick
    \/ MatchSelect
    \/ HandleNext
    \/ Previous
    \/ Tick

Spec == Init /\ [][Next]_vars

\* The sessions whose questions have pairwise distinct identities, as the
\* data model of a Question asks
DistinctIds(qs) ==
    \A i, j \in 1..Len(qs) : i # j => qs[i].id # qs[j].id

InitDistinct == Init /\ DistinctIds(questions)

SpecDistinct == InitDistinct /\ [][Next]_vars

-----------------------------------------------------------------------------
(* Properties of the session *)

QuestionIds == {questions[i].id : i \in 1..Len(questions)}

TimeoutCount ==
    Cardinality({s \in 1..Len(submissions) : submissions[s].by = "timeout"})

\* payload holds exactly the answer a under identity id
Holds(payload, id, a) ==
    /\ \E j \in 1..Len(payload) : payload[j].questionId = id
    /\ \A j \in 1..Len(payload) : payload[j].questionId = id => payload[j].answer = a

\* The serialization of the transient state of a sequencing or matching question
TransientEncoding(q, seq, sel) ==
    IF q.type = SEQUENCING THEN EncodeSequence(seq) ELSE EncodeMatching(sel)

LastSubmission(subs) == subs[Len(subs)]

\* C1: every answer set delivered at finalization has exactly one UserAnswer
\* for each question, N of them for N questions, and an empty answer for
\* every question that was never visited or never filled.
C1_FinalAnswerSetComplete ==
    \A s \in 1..Len(submissions) :
        LET payload == submissions[s].answers
        IN  /\ Len(payload) = Len(questions)
            /\ \A i \in 1..Len(questions) :
                  Cardinality({j \in 1..Len(payload) :
                                  payload[j].questionId = questions[i].id}) = 1
            /\ \A j \in 1..Len(payload) :
                  /\ payload[j].questionId \in QuestionIds
                  /\ (/\ ~HasKey(answers, NumberKey(payload[j].questionId))
                      /\ payload[j].questionId # CurrentQuestion.id)
                     => payload[j].answer = ""

\* C2: the answer set submitted at timeout after no user interaction at all
\* has N entries, each the empty string.
C2_TimeoutAllEmpty ==
    \A s \in 1..Len(submissions) :
        (submissions[s].by = "timeout" /\ ~interacted)
        => LET payload == submissions[s].answers
           IN  /\ Len(payload) = Len(questions)
               /\ \A j \in 1..Len(payload) : payload[j].answer = ""

\* C3: with a limit of m > 0 minutes the countdown starts at m*60, a tick
\* lowers the remaining seconds by exactly one and no other step changes
\* them, they never go below zero, and the timeout submission has happened
\* exactly once when they are zero and not at all before.
C3_Countdown ==
    /\ (timeLimit > 0 => timeLeft = timeLimit * SecondsPerMinute)
    /\ [][/\ Tick => timeLeft' = timeLeft - 1
          /\ timeLeft' # timeLeft => Tick]_vars
    /\ [](timeLeft >= 0 /\ TimeoutCount <= 1)
    /\ [](timeLimit > 0 => (timeLeft = 0 <=> TimeoutCount = 1))

C3_Witness ==
    /\ timeLimit > 0
    /\ timeLeft = 0
    /\ TimeoutCount = 1
    /\ Len(submissions) = 1
    /\ ~HasKey(answers, NumberKey(questions[Len(questions)].id))

C6_TimeoutSubmitsLiveState ==
    \A s \in 1..Len(submissions) :
        submissions[s].by = "timeout"
        => LET payload == submissions[s].answers
               q == CurrentQuestion
           IN  /\ \A j \in 1..Len(answers) :
                     ParseInt(answers[j].k) # q.id
                     => Holds(payload, ParseInt(answers[j].k), answers[j].v)
               /\ Holds(payload, q.id,
                        IF IsComplex(q)
                        THEN TransientEncoding(q, sequenceItems, matchSelections)
                        ELSE GetOrEmpty(answers, NumberKey(q.id)))

C6_Witness ==
    /\ phase = "Finalized"
    /\ submissions[1].by = "timeout"
    /\ currentIdx > 0
    /\ answers # EmptyObject
    /\ CurrentQuestion.type = MATCHING
    /\ matchSelections # EmptyObject

\* C7: leaving a sequencing or matching question by advance stores the
\* encoding of its transient state under its identity, and submitting on such
\* a last question submits that encoding under its identity.
C7_CommitOnLeave ==
    [][(phase = "Active" /\ IsComplex(CurrentQuestion))
       => LET q == CurrentQuestion
              enc == TransientEncoding(q, sequenceItems, matchSelections)
          IN  /\ currentIdx' = currentIdx + 1
                 => /\ HasKey(answers', NumberKey(q.id))
                    /\ GetOrEmpty(answers', NumberKey(q.id)) = enc
              /\ (phase' = "Finalized" /\ LastSubmission(submissions').by = "next")
                 => Holds(LastSubmission(submissions').answers, q.id, enc)]_vars

C7_Witness ==
    /\ phase = "Finalized"
    /\ submissions[1].by = "next"
    /\ IsComplex(CurrentQuestion)
    /\ TransientEncoding(CurrentQuestion, sequenceItems, matchSelections) # ""
    /\ \E i \in 1..currentIdx :
          /\ IsComplex(questions[i])
          /\ GetOrEmpty(answers, NumberKey(questions[i].id)) # ""

\* C8: advance moves from index i to i+1 without finalizing when i+1 < N and
\* finalizes without changing the index when i = N-1; the only other step
\* that finalizes is the timer's.
C8_Advance ==
    [][/\ HandleNext
          => IF currentIdx + 1 < Len(questions)
             THEN currentIdx' = currentIdx + 1 /\ phase' = "Active"
                  /\ submissions' = submissions
             ELSE currentIdx' = currentIdx /\ phase' = "Finalized"
                  /\ Len(submissions') = Len(submissions) + 1
       /\ (phase = "Active" /\ phase' = "Finalized")
          => \/ LastSubmission(submissions').by = "timeout"
             \/ /\ LastSubmission(submissions').by = "next"
                /\ currentIdx = Len(questions) - 1]_vars

C8_Witness ==
    /\ phase = "Finalized"
    /\ submissions[1].by = "next"
    /\ timeLimit = 0
    /\ currentIdx = Len(questions) - 1
    /\ currentIdx > 1

\* The item list of a question; a question without one has no items.
ItemsOf(q) == IF Has(q, "sequencingItems") THEN q.sequencingItems ELSE <<>>

\* C9: whenever a sequencing or matching question becomes the active question,
\* by advance or by retreat, the working list is an arrangement of that
\* question's items and the selection map is empty.
C9_FreshTransientState ==
    [][currentIdx' # currentIdx
       => LET q == questions[currentIdx' + 1]
          IN  /\ q.type = SEQUENCING => sequenceItems' \in Arrangements(ItemsOf(q))
              /\ q.type = MATCHING => matchSelections' = EmptyObject]_vars

-----------------------------------------------------------------------------
(* Grading a finalized session *)

\* Stored answers a finalized session can hold
GradeAnswerMaps == {EmptyObject, <<[k |-> "1", v |-> "x"]>>}

\* A session finalized by a submission on its last question
InitGrade ==
    /\ questions \in QuizSets
    /\ timeLimit = 0
    /\ answers \in GradeAnswerMaps
    /\ currentIdx = Len(questions) - 1
    /\ timeLeft = InitialTimeLeft(timeLimit)
    /\ sequenceItems = <<>>
    /\ matchSelections = EmptyObject
    /\ intervalActive = FALSE
    /\ phase = "Finalized"
    /\ submissions = <<[by |-> "next",
                        answers |-> GetFormattedAnswers(answers, CurrentQuestion,
                                       sequenceItems, matchSelections, questions)]>>
    /\ interacted = TRUE
    /\ apiKey \in BOOLEAN
    /\ gradeData = NoData
    /\ gradeOutcome = Pending
    /\ remoteCalls = {}
    /\ GenerateDone

\* gradeQuiz runs to its end: without a credential it throws at once, with
\* one it calls the grading service and works on the service's answer.
Grade ==
    /\ phase = "Finalized"
    /\ gradeOutcome = Pending
    /\ IF ApiKeyMissing(apiKey)
       THEN /\ gradeOutcome' = GradeQuiz(apiKey, questions, submissions[1].answers, NoData)
            /\ UNCHANGED <<gradeData, remoteCalls>>
       ELSE /\ remoteCalls' = remoteCalls \cup {"gradeQuiz"}
            /\ \E data \in GradingResponses :
                  /\ gradeData' = data
                  /\ gradeOutcome' = GradeQuiz(apiKey, questions, submissions[1].answers, data)
    /\ UNCHANGED offGrade

NextGrade == Grade

SpecGrade == InitGrade /\ [][NextGrade]_vars

\* C10: when the grading response holds a record whose identity is that of no
\* original question, gradeQuiz throws and returns no QuizResult.
C10_UnknownIdentityAborts ==
    (/\ gradeOutcome # Pending
     /\ Has(gradeData, "gradedQuestions")
     /\ \E n \in 1..Len(gradeData.gradedQuestions) :
           gradeData.gradedQuestions[n].id \notin QuestionIds)
    => /\ gradeOutcome.status = "error"
       /\ ~Has(gradeOutcome, "result")

C10_Witness ==
    /\ apiKey
    /\ Has(gradeData, "gradedQuestions")
    /\ Len(gradeData.gradedQuestions) = 2
    /\ gradeData.gradedQuestions[1].id \in QuestionIds
    /\ gradeData.gradedQuestions[2].id \notin QuestionIds
    /\ gradeOutcome = Thrown("mismatch")

-----------------------------------------------------------------------------
(* Generating the questions of a quiz *)

\* No QuizScreen is mounted
NoSession ==
    /\ questions = <<>>
    /\ timeLimit = 0
    /\ answers = EmptyObject
    /\ currentIdx = 0
    /\ timeLeft = 0
    /\ sequenceItems = <<>>
    /\ matchSelections = EmptyObject
    /\ intervalActive = FALSE
    /\ phase = "Unmounted"
    /\ submissions = <<>>
    /\ interacted = FALSE

\* gradeQuiz has not been called
NoGrading ==
    /\ gradeData = NoData
    /\ gradeOutcome = Pending

\* Configurations handleSubmit passes on
GenConfigs ==
    {Config(<<Doc(f, "r1")>>, t, Len(t) = 0) :
        f \in {f \in Files : ~InvalidType(f) /\ ~TooLarge(f)},
        t \in {<<>>, <<MATCHING>>}}

\* generateQuiz has been called and has not returned
InitGenerate ==
    /\ NoSession
    /\ NoGrading
    /\ apiKey \in BOOLEAN
    /\ remoteCalls = {}
    /\ genRequest \in GenConfigs
    /\ genData = NoData
    /\ genOutcome = Pending
    /\ documents = genRequest.documents
    /\ selectedTypes = genRequest.selectedTypes
    /\ autoDetect = genRequest.autoDetect
    /\ error = ""
    /\ isProcessing = FALSE
    /\ uploadPending = <<>>
    /\ uploadPhase = "Started"
    /\ NoResult

\* generateQuiz runs to its end: without a credential it throws at once, with
\* one it calls the generation service and works on the service's answer.
Generate ==
    /\ genRequest # NoData
    /\ genOutcome = Pending
    /\ IF ApiKeyMissing(apiKey)
       THEN /\ genOutcome' \in GenerateQuiz(apiKey, NoData)
            /\ UNCHANGED <<genData, remoteCalls>>
       ELSE /\ remoteCalls' = remoteCalls \cup {"generateQuiz"}
            /\ \E data \in GenerationResponses :
                  /\ genData' = data
                  /\ genOutcome' \in GenerateQuiz(apiKey, data)
    /\ UNCHANGED genRequest
    /\ UNCHANGED offGenerate

NextGenerate == Generate

SpecGenerate == InitGenerate /\ [][NextGenerate]_vars

-----------------------------------------------------------------------------
(* Configuring a quiz *)

\* The state after the first render of UploadScreen
InitUpload ==
    /\ NoSession
    /\ NoGrading
    /\ apiKey = TRUE
    /\ remoteCalls = {}
    /\ genRequest = NoData
    /\ genData = NoData
    /\ genOutcome = NoData
    /\ documents = <<>>
    /\ selectedTypes = <<>>
    /\ autoDetect = TRUE
    /\ error = ""
    /\ isProcessing = FALSE
    /\ uploadPending = <<>>
    /\ uploadPhase = "Configuring"
    /\ NoResult

\* The files held by the calls of handleFiles that have not returned
RECURSIVE PendingFiles(_)
PendingFiles(pending) ==
    IF pending = <<>> THEN 0 ELSE Len(Head(pending).files) + PendingFiles(Tail(pending))

\* The batches a drop or a change of the file input may deliver now
Batches == SeqsUpTo(Files, MaxFiles - Len(documents) - PendingFiles(uploadPending))

\* handleFiles(files) up to its first await, or to its end when no file of
\* the batch passes the two tests.  A call that waits keeps its argument,
\* its place in the loop and newDocs; reads is the history of its reads.
HandleFiles(files) ==
    /\ uploadPhase = "Configuring"
    /\ LET scan == ScanFiles(files, "")
       IN  /\ error' = scan.error
           /\ IF scan.rest = <<>>
              THEN /\ documents' = documents \o <<>>
                   /\ isProcessing' = FALSE
                   /\ UNCHANGED uploadPending
              ELSE /\ isProcessing' = TRUE
                   /\ uploadPending' = Append(uploadPending,
                         [files |-> files, rest |-> scan.rest, newDocs |-> <<>>, reads |-> <<>>])
                   /\ UNCHANGED documents
    /\ UNCHANGED <<selectedTypes, autoDetect, uploadPhase, genRequest, genOutcome>>
    /\ UNCHANGED offUpload

\* handleDrop and handleFileChange
HandleFilesEvent == \E files \in Batches : HandleFiles(files)

RemoveAt(list, k) == SubSeq(list, 1, k - 1) \o SubSeq(list, k + 1, Len(list))

\* readFileAsBase64 of the k-th waiting call settles, with success or not, and
\* the call runs on to its next await or to its end.
FileRead(k, ok, id) ==
    /\ uploadPhase = "Configuring"
    /\ LET call == uploadPending[k]
           file == Head(call.rest)
           newDocs == IF ok THEN Append(call.newDocs, Doc(file, id)) ELSE call.newDocs
           scan == ScanFiles(Tail(call.rest), IF ok THEN error ELSE ReadError)
       IN  /\ error' = scan.error
           /\ IF scan.rest = <<>>
              THEN /\ documents' = documents \o newDocs
                   /\ isProcessing' = FALSE
                   /\ uploadPending' = RemoveAt(uploadPending, k)
              ELSE /\ uploadPending' =
                         [uploadPending EXCEPT ![k] =
                             [files |-> call.files, rest |-> scan.rest, newDocs |-> newDocs,
                              reads |-> Append(call.reads, ok)]]
                   /\ UNCHANGED <<documents, isProcessing>>
    /\ UNCHANGED <<selectedTypes, autoDetect, uploadPhase, genRequest, genOutcome>>
    /\ UNCHANGED offUpload

FileReadEvent ==
    \E k \in 1..Len(uploadPending), ok \in BOOLEAN, id \in DocIds : FileRead(k, ok, id)

\* removeDoc(id), from the remove button of a listed document
RemoveDoc ==
    /\ uploadPhase = "Configuring"
    /\ \E i \in 1..Len(documents) :
          documents' = SelectSeq(documents, LAMBDA d : d.id # documents[i].id)
    /\ UNCHANGED <<selectedTypes, autoDetect, error, isProcessing, uploadPending,
                   uploadPhase, genRequest, genOutcome>>
    /\ UNCHANGED offUpload

\* toggleType(type), from a type tile; the tiles take no pointer events
\* while autoDetect is on
ToggleType ==
    /\ uploadPhase = "Configuring"
    /\ ~autoDetect
    /\ \E type \in TypeTiles : selectedTypes' = ToggleTypeList(selectedTypes, type)
    /\ autoDetect' = FALSE
    /\ UNCHANGED <<documents, error, isProcessing, uploadPending, uploadPhase,
                   genRequest, genOutcome>>
    /\ UNCHANGED offUpload

\* Faulty variant: the auto-detect button leaves the selected types alone.
ToggleAutoDetectKeepsTypes ==
    /\ uploadPhase = "Configuring"
    /\ autoDetect' = ~autoDetect
    /\ UNCHANGED <<documents, selectedTypes, error, isProcessing, uploadPending,
                   uploadPhase, genRequest, genOutcome>>
    /\ UNCHANGED offUpload

\* The auto-detect button: setAutoDetect(!autoDetect); setSelectedTypes([])
ToggleAutoDetect ==
    /\ uploadPhase = "Configuring"
    /\ autoDetect' = ~autoDetect
    /\ selectedTypes' = <<>>
    /\ UNCHANGED <<documents, error, isProcessing, uploadPending, uploadPhase,
                   genRequest, genOutcome>>
    /\ UNCHANGED offUpload

\* handleSubmit, from the generate button, which is disabled while isProcessing
HandleSubmit ==
    /\ uploadPhase = "Configuring"
    /\ ~isProcessing
    /\ LET err == SubmitError(documents, selectedTypes, autoDetect)
       IN  IF err # ""
           THEN /\ error' = err
                /\ UNCHANGED <<uploadPhase, genRequest, genOutcome>>
           ELSE /\ ParentOnStartQuiz(Config(documents, selectedTypes, autoDetect))
                /\ UNCHANGED error
    /\ UNCHANGED <<documents, selectedTypes, autoDetect, isProcessing, uploadPending>>
    /\ UNCHANGED offUpload

NextUpload ==
    \/ HandleFilesEvent
    \/ FileReadEvent
    \/ RemoveDoc
    \/ ToggleType
    \/ ToggleAutoDetect
    \/ HandleSubmit

SpecUpload == InitUpload /\ [][NextUpload]_vars

-----------------------------------------------------------------------------
(* Reading the result and asking the tutor *)

\* A graded record of the response that produced the result shown
TutorGraded(id) ==
    [id |-> id, isCorrect |-> FALSE, score |-> 0, explanation |-> "e", aiCorrection |-> "c"]

\* Results gradeQuiz returns for a session on QuizMatching
TutorResults ==
    {GradeQuiz(TRUE, QuizMatching,
               <<[questionId |-> 1, answer |-> "p -> x"], [questionId |-> 2, answer |-> "True"]>>,
               [gradedQuestions |-> g, overallFeedback |-> "fb"]).result :
        g \in [1..1 -> {TutorGraded(1), TutorGraded(2)}]
              \cup [1..2 -> {TutorGraded(1), TutorGraded(2)}]}

\* The state after the first render of ResultScreen
InitResult ==
    /\ NoSession
    /\ NoGrading
    /\ NoGeneration
    /\ apiKey \in BOOLEAN
    /\ remoteCalls = {}
    /\ result \in TutorResults
    /\ activeQuestionId = Null
    /\ chatInput = ""
    /\ chatResponse = Null
    /\ isChatLoading = FALSE
    /\ askPending = <<>>
    /\ lastExplain = NoData
    /\ askRejected = FALSE
    /\ chatSource = Null

Cards == 1..Len(result.gradedQuestions)

\* A click on the head of a card: expand it, or collapse it when expanded
ToggleDetails ==
    /\ result # NoData
    /\ \E i \in Cards :
          activeQuestionId' = IF Expanded(i) THEN Null ELSE Some(result.gradedQuestions[i].id)
    /\ UNCHANGED <<result, chatInput, chatResponse, isChatLoading, askPending,
                   lastExplain, askRejected, chatSource, remoteCalls>>
    /\ UNCHANGED offResult

\* onChange of the query field
ChatType ==
    /\ result # NoData
    /\ \E i \in Cards : QueryShown(i)
    /\ \E text \in ChatInputs : chatInput' = text
    /\ UNCHANGED <<result, activeQuestionId, chatResponse, isChatLoading, askPending,
                   lastExplain, askRejected, chatSource, remoteCalls>>
    /\ UNCHANGED offResult

\* handleAskAI(q) for the question of card i, up to its await; when
\* explainQuestion throws before its remote call, to its end.
HandleAskAI(i) ==
    /\ Len(askPending) < MaxOutstanding
    /\ IF Trim(chatInput) = ""
       THEN UNCHANGED <<chatResponse, isChatLoading, askPending, lastExplain,
                        askRejected, chatSource, remoteCalls>>
       ELSE LET start == ExplainQuestionStart(apiKey)
                end == HandleAskAIEnd(start, Null)
            IN  IF start # Pending
                THEN /\ chatResponse' = end.chatResponse
                     /\ isChatLoading' = end.isChatLoading
                     /\ askRejected' = (askRejected \/ end.rejected)
                     /\ chatSource' = IF end.chatResponse = Null THEN Null
                                      ELSE Some(result.gradedQuestions[i].id)
                     /\ lastExplain' = start
                     /\ UNCHANGED <<askPending, remoteCalls>>
                ELSE /\ isChatLoading' = TRUE
                     /\ chatResponse' = Null
                     /\ remoteCalls' = remoteCalls \cup {"explainQuestion"}
                     /\ askPending' = Append(askPending,
                           [question |-> i, id |-> result.gradedQuestions[i].id,
                            query |-> chatInput])
                     /\ chatSource' = Null
                     /\ UNCHANGED <<lastExplain, askRejected>>
    /\ UNCHANGED <<result, activeQuestionId, chatInput>>
    /\ UNCHANGED offResult

\* onClick of the ask button
AskClick ==
    /\ result # NoData
    /\ \E i \in Cards : QueryShown(i) /\ ~AskDisabled /\ HandleAskAI(i)

\* onKeyDown of the query field with the Enter key
AskEnter ==
    /\ result # NoData
    /\ \E i \in Cards : QueryShown(i) /\ HandleAskAI(i)

\* The remote call of the k-th waiting handleAskAI settles, and the handler
\* runs to its end.
AskSettle ==
    /\ result # NoData
    /\ \E k \in 1..Len(askPending), response \in TutorResponses :
          LET outcome == ExplainQuestionEnd(response)
              end == HandleAskAIEnd(outcome, chatResponse)
          IN  /\ chatResponse' = end.chatResponse
              /\ isChatLoading' = end.isChatLoading
              /\ askRejected' = (askRejected \/ end.rejected)
              /\ chatSource' = IF end.chatResponse = Null THEN Null
                               ELSE Some(askPending[k].id)
              /\ lastExplain' = outcome
              /\ askPending' = RemoveAt(askPending, k)
    /\ UNCHANGED <<result, activeQuestionId, chatInput, remoteCalls>>
    /\ UNCHANGED offResult

\* "Ask another question": setChatResponse(null); setChatInput('')
AskAnother ==
    /\ result # NoData
    /\ \E i \in Cards : Expanded(i)
    /\ chatResponse # Null
    /\ chatResponse' = Null
    /\ chatInput' = ""
    /\ chatSource' = Null
    /\ UNCHANGED <<result, activeQuestionId, isChatLoading, askPending, lastExplain,
                   askRejected, remoteCalls>>
    /\ UNCHANGED offResult

NextResult ==
    \/ ToggleDetails
    \/ ChatType
    \/ AskClick
    \/ AskEnter
    \/ AskSettle
    \/ AskAnother

SpecResult == InitResult /\ [][NextResult]_vars

-----------------------------------------------------------------------------
(* The three service functions *)

InitServices == InitGenerate \/ InitGrade \/ InitResult

NextServices == NextGenerate \/ NextGrade \/ NextResult

SpecServices == InitServices /\ [][NextServices]_vars

\* C13: generateQuiz throws, and hands no question list to its caller, when
\* the generation response holds an empty questions array as well as when it
\* holds no questions array at all.
C13_RejectsEmptyQuestionSet ==
    (/\ genOutcome # Pending
     /\ genData # NoData
     /\ (~Has(genData, "questions") \/ genData.questions = <<>>))
    => /\ genOutcome.status = "error"
       /\ ~Has(genOutcome, "questions")

\* The number of positions of list that hold v
Occurrences(list, v) == Cardinality({i \in 1..Len(list) : list[i] = v})

\* a is a permutation of b: the same elements with the same multiplicities
IsPermutationOf(a, b) ==
    /\ Len(a) = Len(b)
    /\ \A i \in 1..Len(b) : Occurrences(a, b[i]) = Occurrences(b, b[i])

\* C14: in the list generateQuiz returns, every multiple-choice question has
\* a permutation of the generated option list, with correctAnswer and every
\* other field as generated, and every question of another type is the
\* generated question itself.
C14_ShuffleKeepsQuestions ==
    (genOutcome # Pending /\ genOutcome.status = "ok")
    => LET generated == genData.questions
           normalized == genOutcome.questions
       IN  /\ Len(normalized) = Len(generated)
           /\ \A i \in 1..Len(generated) :
                 LET g == generated[i]
                     n == normalized[i]
                 IN  IF g.type = MULTIPLE_CHOICE
                     THEN /\ DOMAIN n = DOMAIN g
                          /\ \A f \in DOMAIN g \ {"options"} : n[f] = g[f]
                          /\ Has(g, "options") => IsPermutationOf(n.options, g.options)
                     ELSE n = g

C14_Witness ==
    /\ genOutcome # Pending
    /\ genOutcome.status = "ok"
    /\ Len(genOutcome.questions) = 2
    /\ genOutcome.questions[1].type = MULTIPLE_CHOICE
    /\ Has(genOutcome.questions[1], "options")
    /\ genOutcome.questions[1].options = <<"x", "x", "y">>
    /\ genOutcome.questions[2].type = TRUE_FALSE
    /\ Has(genOutcome.questions[2], "options")

\* A configuration handleSubmit must not pass on
BadConfiguration == Len(documents) = 0 \/ (~autoDetect /\ Len(selectedTypes) = 0)

\* C15: a submission with no document, or with auto-detect off and no type
\* selected, reports an error and calls neither onStartQuiz nor the
\* generation service; onStartQuiz is called, with the configuration shown,
\* only when there is a document and auto-detect is on or a type is selected.
C15_ConfigurationValidated ==
    /\ [][/\ (HandleSubmit /\ BadConfiguration)
             => /\ error' # ""
                /\ UNCHANGED <<uploadPhase, genRequest, genOutcome, remoteCalls>>
          /\ genRequest' # genRequest
             => /\ ~BadConfiguration
                /\ genRequest'.documents = documents
                /\ genRequest'.selectedTypes = selectedTypes
                /\ genRequest'.autoDetect = autoDetect]_vars
    /\ [](genRequest # NoData
          => /\ Len(genRequest.documents) > 0
             /\ genRequest.autoDetect \/ Len(genRequest.selectedTypes) > 0)

C15_Witness ==
    /\ uploadPhase = "Configuring"
    /\ Len(documents) > 0
    /\ ~autoDetect
    /\ selectedTypes = <<>>
    /\ error = "Please select at least one question type or enable Auto-detect."
    /\ genRequest = NoData

\* sub occurs in s
Contains(s, sub) ==
    \E i \in 1..(Len(s) - Len(sub) + 1) : SubSeq(s, i, i + Len(sub) - 1) = sub

\* A file the intake must exclude: above 10 MB, or of a media type outside
\* pdf, jpeg, png and webp
Rejected(file) ==
    \/ file.size > 10485760
    \/ file.type \notin {"application/pdf", "image/jpeg", "image/png", "image/webp"}

\* The number of files at the head of a list that the intake must exclude
RECURSIVE RejectedPrefix(_)
RejectedPrefix(files) ==
    IF files # <<>> /\ Rejected(Head(files)) THEN 1 + RejectedPrefix(Tail(files)) ELSE 0

\* The loop has passed rejected files at the head of files in this step, and
\* error names the last of them
WarningRecorded(files) ==
    RejectedPrefix(files) > 0
    => /\ error' # ""
       /\ Contains(error', files[RejectedPrefix(files)].name)

\* The documents this step has added to the accepted set
Added == SubSeq(documents', Len(documents) + 1, Len(documents'))

\* The files of a batch that pass both tests, and those among them whose
\* read succeeded, reads being the outcomes of the reads in order
Valid(files) == SelectSeq(files, LAMBDA f : ~Rejected(f))

RECURSIVE ReadOk(_, _)
ReadOk(files, reads) ==
    IF files = <<>> THEN <<>>
    ELSE IF Head(reads) THEN <<Head(files)>> \o ReadOk(Tail(files), Tail(reads))
    ELSE ReadOk(Tail(files), Tail(reads))

\* added holds one document for each file of files, in order
DocumentsOf(added, files) ==
    /\ Len(added) = Len(files)
    /\ \A i \in 1..Len(files) :
          added[i].name = files[i].name /\ added[i].mimeType = files[i].type

Ended(outcome) == outcome # NoData /\ outcome # Pending

\* C17: without the API credential, generateQuiz, gradeQuiz and
\* explainQuestion each end in an error, none returns a result, and no remote
\* call is ever made.
C17_CredentialRequired ==
    ~apiKey
    => /\ remoteCalls = {}
       /\ Ended(genOutcome) => genOutcome.status = "error" /\ ~Has(genOutcome, "questions")
       /\ Ended(gradeOutcome) => gradeOutcome.status = "error" /\ ~Has(gradeOutcome, "result")
       /\ Ended(lastExplain) => lastExplain.status = "error" /\ ~Has(lastExplain, "value")
       /\ genData = NoData
       /\ gradeData = NoData
       /\ askPending = <<>>

C17_Witness ==
    /\ ~apiKey
    /\ Ended(lastExplain)
    /\ lastExplain.status = "error"
    /\ remoteCalls = {}
    /\ activeQuestionId # Null

\* C18: when the remote call of a follow-up fails, the follow-up ends with a
\* fallback explanation shown and never with a rejection of handleAskAI, and
\* whenever a follow-up ends, with an explanation or with a failure, the
\* loading flag is cleared and some explanation is shown.
C18_TutorFallback ==
    /\ [][(AskSettle \/ ((AskClick \/ AskEnter) /\ Trim(chatInput) # "" /\ ~apiKey))
          => /\ isChatLoading' = FALSE
             /\ chatResponse' # Null
             /\ ~askRejected'
             /\ lastExplain'.status = "error"
                => chatResponse' = <<"Sorry, I couldn't connect to the AI tutor right now.">>]_vars
    /\ [](~askRejected)

C18_Witness ==
    /\ apiKey
    /\ Ended(lastExplain)
    /\ lastExplain.status = "error"
    /\ chatResponse = <<"Sorry, I couldn't connect to the AI tutor right now.">>
    /\ ~isChatLoading
    /\ askPending = <<>>
    /\ "explainQuestion" \in remoteCalls

\* C19: at most one follow-up request is in flight at any time.
C19_SingleOutstanding == Len(askPending) <= 1

-----------------------------------------------------------------------------
(* Ordering the items of a sequencing question *)

MaxItems == 2

\* Items the generation service can give a sequencing question
ItemStrings == {"a", "b", "", " ", " |", "a ||", "|| a", "a || b"}

\* A session on one sequencing question, with no time limit
InitSequencing ==
    /\ questions \in {<<[id |-> 1, type |-> SEQUENCING, text |-> "t1",
                          sequencingItems |-> items]>> :
                         items \in SeqsUpTo(ItemStrings, MaxItems)}
    /\ timeLimit = 0
    /\ answers = EmptyObject
    /\ currentIdx = 0
    /\ timeLeft = InitialTimeLeft(timeLimit)
    /\ sequenceItems \in InitSequenceItems(questions[1], <<>>)
    /\ matchSelections = InitMatchSelections(questions[1], EmptyObject)
    /\ intervalActive = TimerArmed(timeLimit)
    /\ phase = "Active"
    /\ submissions = <<>>
    /\ interacted = FALSE
    /\ apiKey = TRUE
    /\ NoGrading
    /\ remoteCalls = {}
    /\ GenerateDone

NextSequencing == MoveItemClick \/ HandleNext

SpecSequencing == InitSequencing /\ [][NextSequencing]_vars

\* The position of the first occurrence of sub in s, 0 when there is none
IndexOf(s, sub) ==
    IF Contains(s, sub)
    THEN CHOOSE i \in 1..(Len(s) - Len(sub) + 1) :
            /\ SubSeq(s, i, i + Len(sub) - 1) = sub
            /\ \A j \in 1..(i - 1) : SubSeq(s, j, j + Len(sub) - 1) # sub
    ELSE 0

\* s.split(sep) for a separator that is not empty
RECURSIVE Split(_, _)
Split(s, sep) ==
    IF IndexOf(s, sep) = 0 THEN <<s>>
    ELSE <<SubSeq(s, 1, IndexOf(s, sep) - 1)>>
         \o Split(SubSeq(s, IndexOf(s, sep) + Len(sep), Len(s)), sep)

\* The first n items of a list, each followed by " || " but the last
RECURSIVE Joined(_, _)
Joined(items, n) ==
    IF n = 0 THEN ""
    ELSE IF n = 1 THEN items[1]
    ELSE Joined(items, n - 1) \o " || " \o items[n]

EndsWith(s, suffix) ==
    Len(s) >= Len(suffix) /\ SubSeq(s, Len(s) - Len(suffix) + 1, Len(s)) = suffix

\* The answer a submission holds for the sequencing question, and the stored one
SubmittedSequence(s) == submissions[s].answers[1].answer

\* The submitted and the stored answer are the working list joined by " || ",
\* and splitting them on " || " gives the working list back
RoundTrip ==
    \A s \in 1..Len(submissions) :
        /\ SubmittedSequence(s) = Joined(sequenceItems, Len(sequenceItems))
        /\ GetOrEmpty(answers, "1") = SubmittedSequence(s)
        /\ Split(SubmittedSequence(s), " || ") = sequenceItems

\* C20 as claimed: the answer of a sequencing question is its working list
\* joined in order by " || ", and for every working list none of whose items
\* contains " || ", splitting the answer on " || " gives the working list.
C20_SequencingRoundTrip ==
    (\A i \in 1..Len(sequenceItems) : ~Contains(sequenceItems[i], " || "))
    => RoundTrip

\* C20 as amended: the same for every working list that is not empty, none
\* of whose items contains " || " and none of whose items but the last
\* ends with " ||".
C20_SequencingRoundTripUnambiguous ==
    (/\ Len(sequenceItems) > 0
     /\ \A i \in 1..Len(sequenceItems) : ~Contains(sequenceItems[i], " || ")
     /\ \A i \in 1..(Len(sequenceItems) - 1) : ~EndsWith(sequenceItems[i], " ||"))
    => RoundTrip

C20_Witness ==
    /\ phase = "Finalized"
    /\ questions[1].sequencingItems = <<"a", "|| a">>
    /\ sequenceItems = <<"|| a", "a">>
    /\ SubmittedSequence(1) = "|| a || a"
    /\ Split(SubmittedSequence(1), " || ") = sequenceItems

\* The number of records of a graded list that carry the score v
ScoreCount(graded, v) == Cardinality({n \in 1..Len(graded) : graded[n].score = v})

\* C11: in every QuizResult produced, totalScore is the sum of the scores of
\* the graded records of the result (in half points: one for each record
\* scored 0.5 and two for each record scored 1), and maxScore is the number
\* of original questions, also when the response holds fewer records than
\* there are questions.
C11_Totals ==
    (gradeOutcome # Pending /\ gradeOutcome.status = "ok")
    => LET r == gradeOutcome.result
       IN  /\ r.totalScore = ScoreCount(r.gradedQuestions, 1)
                              + 2 * ScoreCount(r.gradedQuestions, 2)
           /\ r.maxScore = Len(questions)

C11_Witness ==
    /\ gradeOutcome # Pending
    /\ gradeOutcome.status = "ok"
    /\ Len(gradeOutcome.result.gradedQuestions) = 1
    /\ Len(questions) = 3
    /\ gradeOutcome.result.totalScore = 1
    /\ gradeOutcome.result.maxScore = 3

\* C12: the gradedQuestions list of a QuizResult is in the order of the
\* original questions, whatever the order of the records in the grading
\* response: a record never stands before a record of an earlier question.
C12_OriginalOrder ==
    (gradeOutcome # Pending /\ gradeOutcome.status = "ok")
    => LET g == gradeOutcome.result.gradedQuestions
       IN  \A n, m \in 1..Len(g) :
              n < m => FindQuestion(questions, g[n].id) <= FindQuestion(questions, g[m].id)

-----------------------------------------------------------------------------
(* Pairing the items of a matching question *)

\* Pair lists the generation service can give a matching question
MatchingPairLists ==
    { <<[left |-> "Paris", right |-> "France"], [left |-> "Berlin", right |-> "Germany"]>>,
      <<[left |-> "2", right |-> "x"], [left |-> "1", right |-> "y"]>>,
      <<[left |-> "b", right |-> "x"], [left |-> "10", right |-> "x"]>>,
      <<[left |-> "a", right |-> "x"], [left |-> "a", right |-> "y"]>> }

\* A session on one matching question, with no time limit
InitMatching ==
    /\ questions \in {<<[id |-> 1, type |-> MATCHING, text |-> "t1",
                          matchingPairs |-> pairs]>> : pairs \in MatchingPairLists}
    /\ timeLimit = 0
    /\ answers = EmptyObject
    /\ currentIdx = 0
    /\ timeLeft = InitialTimeLeft(timeLimit)
    /\ sequenceItems \in InitSequenceItems(questions[1], <<>>)
    /\ matchSelections = InitMatchSelections(questions[1], EmptyObject)
    /\ intervalActive = TimerArmed(timeLimit)
    /\ phase = "Active"
    /\ submissions = <<>>
    /\ interacted = FALSE
    /\ apiKey = TRUE
    /\ NoGrading
    /\ remoteCalls = {}
    /\ GenerateDone

NextMatching == MatchSelect \/ HandleNext

SpecMatching == InitMatching /\ [][NextMatching]_vars

\* The first n entries of a selection map, each as "left -> right", joined by ", "
RECURSIVE Rendered(_, _)
Rendered(sel, n) ==
    IF n = 0 THEN ""
    ELSE IF n = 1 THEN sel[1].k \o " -> " \o sel[1].v
    ELSE Rendered(sel, n - 1) \o ", " \o sel[n].k \o " -> " \o sel[n].v

\* sel with the right value of its entry for left replaced, every entry in its place
Overwritten(sel, left, right) ==
    [i \in 1..Len(sel) |-> IF sel[i].k = left THEN [k |-> left, v |-> right] ELSE sel[i]]

\* The answer a submission holds for the matching question
SubmittedMatching(s) == submissions[s].answers[1].answer

\* C21: the answer of a matching question is its selected pairs, each as
\* "left -> right", joined by ", " in the order in which the left items were
\* first selected: a selection of a left item not yet selected comes last, a
\* selection of a left item already selected changes its right value in place,
\* and the empty selection map gives the empty string.
C21_MatchingEncoding ==
    /\ [][matchSelections' # matchSelections
          => \E left \in LeftItems(CurrentQuestion), right \in SelectValues(CurrentQuestion) :
                matchSelections' =
                    IF HasKey(matchSelections, left)
                    THEN Overwritten(matchSelections, left, right)
                    ELSE Append(matchSelections, [k |-> left, v |-> right])]_vars
    /\ [](\A s \in 1..Len(submissions) :
            /\ SubmittedMatching(s) = Rendered(matchSelections, Len(matchSelections))
            /\ GetOrEmpty(answers, "1") = SubmittedMatching(s)
            /\ matchSelections = EmptyObject => SubmittedMatching(s) = "")

-----------------------------------------------------------------------------
(* The percentage of the result screen *)

MaxQuestions == 20

\* The bits of the significand of a JavaScript number
MantissaBits == 53

\* A positive number is [bits, exp]: the binary fraction 0.b1 b2 ... with
\* b1 = 1, times 2^exp.  Zero is [bits |-> <<>>, exp |-> 0].
Zero == [bits |-> <<>>, exp |-> 0]

\* The k binary digits of a natural number below 2^k
Binary(n, k) == SubSeq([j \in 1..k |-> (n \div 2^(k - j)) % 2], 1, k)

\* The natural number a bit sequence writes
RECURSIVE BitsValue(_)
BitsValue(bits) ==
    IF bits = <<>> THEN 0
    ELSE IF Len(bits) = 1 THEN bits[1]
    ELSE LET half == Len(bits) \div 2
         IN  BitsValue(SubSeq(bits, 1, half)) * 2^(Len(bits) - half)
             + BitsValue(SubSeq(bits, half + 1, Len(bits)))

\* The first 53 bits of the binary fraction n/d, for d/2 <= n < d, worked out
\* by long division in three steps of 18, 18 and 17 bits
DivBits(n, d) ==
    LET r1 == (n * 2^18) % d
        r2 == (r1 * 2^18) % d
    IN  Binary((n * 2^18) \div d, 18) \o Binary((r1 * 2^18) \div d, 18)
        \o Binary((r2 * 2^17) \div d, 17)

\* The remainder after those bits
DivRem(n, d) ==
    LET r1 == (n * 2^18) % d
        r2 == (r1 * 2^18) % d
    IN  (r2 * 2^17) % d

\* A sequence of k zeros
Zeros(k) == SubSeq([j \in 1..k |-> 0], 1, k)

\* bits plus one unit in the last place: the last zero becomes a one and the
\* ones after it zeros; a carry out of the first place gives a one followed
\* by zeros and raises the exponent.
Increment(bits) ==
    IF \A j \in 1..Len(bits) : bits[j] = 1
    THEN <<1>> \o Zeros(Len(bits) - 1)
    ELSE LET last == CHOOSE p \in 1..Len(bits) :
                        bits[p] = 0 /\ \A j \in (p + 1)..Len(bits) : bits[j] = 1
         IN  SubSeq(bits, 1, last - 1) \o <<1>> \o Zeros(Len(bits) - last)

RoundedUp(x) ==
    [bits |-> Increment(x.bits),
     exp |-> IF \A j \in 1..Len(x.bits) : x.bits[j] = 1 THEN x.exp + 1 ELSE x.exp]

\* Rounding to nearest, ties to even: x with the bits kept, when what was
\* dropped is more than, exactly, or less than half a unit in the last place
RoundNearestEven(x, moreThanHalf, exactlyHalf) ==
    IF moreThanHalf \/ (exactlyHalf /\ x.bits[Len(x.bits)] = 1) THEN RoundedUp(x) ELSE x

\* n / d scaled into [1/2, 1): the numerator, the denominator and the exponent
RECURSIVE Scaled(_, _, _)
Scaled(n, d, e) ==
    IF n >= d THEN Scaled(n, 2 * d, e + 1)
    ELSE IF 2 * n < d THEN Scaled(2 * n, d, e - 1)
    ELSE [n |-> n, d |-> d, exp |-> e]

\* The quotient n / d of two positive integers as the division operator gives it
DoubleDivide(n, d) ==
    LET s == Scaled(n, d, 0)
        rem == DivRem(s.n, s.d)
    IN  RoundNearestEven([bits |-> DivBits(s.n, s.d), exp |-> s.exp],
                         2 * rem > s.d, 2 * rem = s.d)

\* The exact product of a significand of 53 bits with 100, seven bits more,
\* worked out on its last 17, its middle 18 and its first 18 bits
TimesHundred(bits) ==
    LET low == 100 * BitsValue(SubSeq(bits, 37, 53))
        mid == 100 * BitsValue(SubSeq(bits, 19, 36)) + low \div 2^17
        high == 100 * BitsValue(SubSeq(bits, 1, 18)) + mid \div 2^18
    IN  Binary(high, 25) \o Binary(mid % 2^18, 18) \o Binary(low % 2^17, 17)

\* The number of zeros a bit sequence starts with
RECURSIVE LeadingZeros(_)
LeadingZeros(bits) ==
    IF bits = <<>> \/ bits[1] = 1 THEN 0 ELSE 1 + LeadingZeros(Tail(bits))

\* x * 100 as the multiplication operator gives it
DoubleTimesHundred(x) ==
    IF x = Zero THEN Zero
    ELSE LET product == TimesHundred(x.bits)
             z == LeadingZeros(product)
             kept == SubSeq(product, z + 1, z + MantissaBits)
             dropped == SubSeq(product, z + MantissaBits + 1, Len(product))
             half == dropped # <<>> /\ dropped[1] = 1
             rest == \E j \in 2..Len(dropped) : dropped[j] = 1
         IN  RoundNearestEven([bits |-> kept, exp |-> x.exp + 7 - z],
                              half /\ rest, half /\ ~rest)

\* Math.round(x) for x >= 0: the integer part, plus one when the first
\* fractional bit is set
MathRound(x) ==
    IF x = Zero \/ x.exp < 0 THEN 0
    ELSE BitsValue(SubSeq(x.bits, 1, x.exp)) + x.bits[x.exp + 1]

\* Math.round((result.totalScore / result.maxScore) * 100), with totalScore
\* in half points
Percentage(r) ==
    IF r.totalScore = 0 THEN 0
    ELSE MathRound(DoubleTimesHundred(DoubleDivide(r.totalScore, 2 * r.maxScore)))

\* A session of m short-answer questions, and a grading response that gives
\* it h half points: full marks first, then one half mark, then none.
ScoredQuestions(m) ==
    [i \in 1..m |-> [id |-> i, type |-> SHORT_ANSWER, text |-> "t", correctAnswer |-> "x"]]

ScoredGraded(m, h) ==
    [i \in 1..m |->
        [id |-> i, isCorrect |-> 2 * i <= h,
         score |-> IF 2 * i <= h THEN 2 ELSE IF 2 * i - 1 = h THEN 1 ELSE 0,
         explanation |-> "e", aiCorrection |-> "c"]]

\* Results gradeQuiz returns for these sessions
ScoredResults ==
    {GradeQuiz(TRUE, ScoredQuestions(p[1]), <<>>,
               [gradedQuestions |-> ScoredGraded(p[1], p[2]),
                overallFeedback |-> "fb"]).result :
        p \in {s \in (1..MaxQuestions) \X (0..(2 * MaxQuestions)) : s[2] <= 2 * s[1]}}

\* The state after the first render of ResultScreen with such a result
InitPercentage ==
    /\ NoSession
    /\ NoGrading
    /\ NoGeneration
    /\ apiKey = TRUE
    /\ remoteCalls = {}
    /\ result \in ScoredResults
    /\ activeQuestionId = Null
    /\ chatInput = ""
    /\ chatResponse = Null
    /\ isChatLoading = FALSE
    /\ askPending = <<>>
    /\ lastExplain = NoData
    /\ askRejected = FALSE
    /\ chatSource = Null

NextPercentage == ToggleDetails

SpecPercentage == InitPercentage /\ [][NextPercentage]_vars

\* The integer nearest to 100 * total / max for a total of h half points, the
\* upper one of two that are equally near
RoundedPercent(h, max) == (100 * h + max) \div (2 * max)

\* C22: the percentage shown is 100 * totalScore / maxScore rounded to the
\* nearest integer, for every total that is a multiple of 0.5 from 0 to
\* maxScore and every maxScore from 1 on; for 7.5 of 10 it is 75.
C22_Percentage ==
    result # NoData
    => /\ Percentage(result) = RoundedPercent(result.totalScore, result.maxScore)
       /\ (result.totalScore = 15 /\ result.maxScore = 10) => Percentage(result) = 75

-----------------------------------------------------------------------------
(* A session without a time limit *)

\* C23: with a time limit of 0 no interval is ever scheduled, no tick occurs,
\* the remaining seconds stay 0 as they are from the start, no timeout
\* submission happens, and the session is finalized only by handleNext on the
\* last question.
C23_NoTimer ==
    /\ [](timeLimit = 0 => (~intervalActive /\ timeLeft = 0 /\ TimeoutCount = 0))
    /\ [][timeLimit = 0 => ~Tick]_vars
    /\ [][(timeLimit = 0 /\ phase = "Active" /\ phase' = "Finalized")
          => /\ HandleNext
             /\ IsLastQuestion
             /\ Len(submissions') = 1
             /\ submissions'[1].by = "next"]_vars

C23_Witness ==
    /\ timeLimit = 0
    /\ timeLeft = 0
    /\ phase = "Finalized"
    /\ Len(submissions) = 1
    /\ submissions[1].by = "next"
    /\ Len(questions) = 2
    /\ answers # EmptyObject

-----------------------------------------------------------------------------
(* The order in which sequencing items are first shown *)

\* q is a sequencing question with at least two distinct items
HasDistinctItems(q) ==
    /\ q.type = SEQUENCING
    /\ Has(q, "sequencingItems")
    /\ Cardinality({q.sequencingItems[i] : i \in 1..Len(q.sequencingItems)}) >= 2

\* C24: when a sequencing question with at least two distinct items becomes
\* the active question, at the start of the session, by advance or by
\* retreat, the working list is not in the order of the question's item list.
C24_NeverOriginalOrder ==
    /\ HasDistinctItems(questions[1]) => sequenceItems # questions[1].sequencingItems
    /\ [][(currentIdx' # currentIdx /\ HasDistinctItems(questions[currentIdx' + 1]))
          => sequenceItems' # questions[currentIdx' + 1].sequencingItems]_vars

-----------------------------------------------------------------------------
(* The choices of a matching question *)

\* The space, the digits and the letters, in the order of their code units
Ascii == " 0123456789ABCDEFGHIJKLMNOPQRSTUVWXYZabcdefghijklmnopqrstuvwxyz"

CodeUnit(c) == CHOOSE i \in 1..Len(Ascii) : CharAt(Ascii, i) = c

\* a comes before b in the order of Array.prototype.sort without a comparator
RECURSIVE StringBefore(_, _)
StringBefore(a, b) ==
    IF b = "" THEN FALSE
    ELSE IF a = "" THEN TRUE
    ELSE IF CharAt(a, 1) # CharAt(b, 1) THEN CodeUnit(CharAt(a, 1)) < CodeUnit(CharAt(b, 1))
    ELSE StringBefore(SubSeq(a, 2, Len(a)), SubSeq(b, 2, Len(b)))

\* list with x put before the first element that comes after it
RECURSIVE Inserted(_, _)
Inserted(list, x) ==
    IF list = <<>> THEN <<x>>
    ELSE IF StringBefore(x, list[1]) THEN <<x>> \o list
    ELSE <<list[1]>> \o Inserted(Tail(list), x)

\* list.sort()
RECURSIVE SortStrings(_)
SortStrings(list) ==
    IF list = <<>> THEN <<>>
    ELSE Inserted(SortStrings(SubSeq(list, 1, Len(list) - 1)), list[Len(list)])

\* rightOptions: currentQuestion.matchingPairs?.map(p => p.right).sort() || []
RightOptions(q) ==
    IF Has(q, "matchingPairs")
    THEN SortStrings([i \in 1..Len(q.matchingPairs) |-> q.matchingPairs[i].right])
    ELSE <<>>

\* The options of the select of the pair at position i, after the placeholder
OptionsOffered(q, i) == RightOptions(q)

\* The right values of the pairs of a question
RightValues(q) ==
    IF Has(q, "matchingPairs")
    THEN {q.matchingPairs[i].right : i \in 1..Len(q.matchingPairs)}
    ELSE {}

\* C25: while a matching question is active, the choices offered for each of
\* its left items are the distinct right values of all its pairs, each once,
\* in sorted order, and they are the same for every left item.
C25_RightChoices ==
    (phase = "Active" /\ CurrentQuestion.type = MATCHING /\ Has(CurrentQuestion, "matchingPairs"))
    => \A i \in 1..Len(CurrentQuestion.matchingPairs) :
          LET offered == OptionsOffered(CurrentQuestion, i)
          IN  /\ {offered[n] : n \in 1..Len(offered)} = RightValues(CurrentQuestion)
              /\ \A n, m \in 1..Len(offered) : n < m => StringBefore(offered[n], offered[m])
              /\ offered = OptionsOffered(CurrentQuestion, 1)

-----------------------------------------------------------------------------
(* The identities of the questions generateQuiz returns *)

\* C26: the questions generateQuiz returns have pairwise distinct ids,
\* whatever list the generation service has answered with, a list with a
\* repeated id included.
C26_DistinctIdentities ==
    (genOutcome # Pending /\ genOutcome.status = "ok") => DistinctIds(genOutcome.questions)

-----------------------------------------------------------------------------
(* Auto-detect and the explicit question types *)

\* C27: whenever auto-detect is on, no explicit type is selected: a change of
\* the selected types by a type tile leaves auto-detect off, and a change of
\* auto-detect, in either direction, leaves no type selected.
C27_AutoDetectExclusive ==
    /\ [](autoDetect => selectedTypes = <<>>)
    /\ [][(selectedTypes' # selectedTypes /\ autoDetect' = autoDetect) => ~autoDetect']_vars
    /\ [][ToggleType => ~autoDetect']_vars
    /\ [][autoDetect' # autoDetect => selectedTypes' = <<>>]_vars

C27_Witness ==
    /\ uploadPhase = "Configuring"
    /\ ~autoDetect
    /\ selectedTypes = <<MATCHING, MULTIPLE_CHOICE>>

-----------------------------------------------------------------------------
(* The current index *)

\* C28: the session starts at index 0 and the current index is always one of
\* 0 .. N-1: an advance raises it by one below N-1 and leaves it at N-1, a
\* retreat lowers it by one above 0, and at index 0 nothing lowers it.
C28_IndexInRange ==
    /\ currentIdx = 0
    /\ [](currentIdx >= 0 /\ currentIdx < Len(questions))
    /\ [][HandleNext => currentIdx' = IF currentIdx < Len(questions) - 1
                                       THEN currentIdx + 1 ELSE currentIdx]_vars
    /\ [][Previous => (currentIdx > 0 /\ currentIdx' = currentIdx - 1)]_vars
    /\ [][currentIdx' < currentIdx => (currentIdx > 0 /\ currentIdx' = currentIdx - 1)]_vars
    /\ [][currentIdx' > currentIdx => currentIdx' = currentIdx + 1]_vars

C28_Witness ==
    /\ phase = "Active"
    /\ questions = QuizMixed
    /\ currentIdx = 0
    /\ HasKey(answers, "2")

-----------------------------------------------------------------------------
(* Moving an item of the working list *)

\* list with the elements at positions i and i + 1 exchanged, every other
\* element in its place
Exchanged(list, moved, i) ==
    /\ Len(moved) = Len(list)
    /\ moved[i] = list[i + 1]
    /\ moved[i + 1] = list[i]
    /\ \A n \in 1..Len(list) : (n # i /\ n # i + 1) => moved[n] = list[n]

\* C29: moveItem up on the item at a position above the first exchanges it
\* with the item before it, moveItem down on an item before the last
\* exchanges it with the item after it, every other item stays in its place,
\* and up on the first item or down on the last gives the list unchanged; a
\* click on an arrow changes the working list in just this way.
C29_MoveItem ==
    /\ [](\A index \in 0..(Len(sequenceItems) - 1) :
            /\ IF index > 0
               THEN Exchanged(sequenceItems, MoveItem(sequenceItems, index, "up"), index)
               ELSE MoveItem(sequenceItems, index, "up") = sequenceItems
            /\ IF index < Len(sequenceItems) - 1
               THEN Exchanged(sequenceItems, MoveItem(sequenceItems, index, "down"), index + 1)
               ELSE MoveItem(sequenceItems, index, "down") = sequenceItems)
    /\ [][MoveItemClick
          => \E i \in 1..(Len(sequenceItems) - 1) :
                Exchanged(sequenceItems, sequenceItems', i)]_vars

C29_Witness ==
    /\ phase = "Active"
    /\ questions = QuizSequencing
    /\ currentIdx = 0
    /\ answers = EmptyObject
    /\ interacted
    /\ sequenceItems = <<"c", "b", "a">>

-----------------------------------------------------------------------------
(* Recording the answer of a simple question *)

\* The stored answer of the question at position j of the session
StoredAnswer(ans, j) == GetOrEmpty(ans, NumberKey(questions[j].id))

\* C30: record-answer stores the input under the identity of the active
\* question at once and leaves the current index, the remaining seconds and
\* the stored answer of every other question as they are; retreat leaves the
\* stored answers as they are; and the stored answer of a simple question
\* changes only by record-answer on that question, so that it is the last
\* value recorded for it after any advances and retreats.
C30_RecordAnswer ==
    /\ [][RecordAnswer
          => /\ HasKey(answers', NumberKey(CurrentQuestion.id))
             /\ StoredAnswer(answers', currentIdx + 1) \in SimpleInputs(CurrentQuestion)
             /\ currentIdx' = currentIdx
             /\ timeLeft' = timeLeft
             /\ \A j \in 1..Len(questions) :
                   j # currentIdx + 1 => StoredAnswer(answers', j) = StoredAnswer(answers, j)]_vars
    /\ [][Previous => answers' = answers]_vars
    /\ [][\A j \in 1..Len(questions) :
             (~IsComplex(questions[j]) /\ StoredAnswer(answers', j) # StoredAnswer(answers, j))
             => (RecordAnswer /\ currentIdx + 1 = j)]_vars

-----------------------------------------------------------------------------
(* The working list of a sequencing question *)

\* C31: while a sequencing question is the active question, the working list
\* is a permutation of that question's own item list: the same items with the
\* same multiplicities, none of them from an earlier sequencing question.
C31_WorkingListPermutation ==
    (phase = "Active" /\ CurrentQuestion.type = SEQUENCING)
    => IsPermutationOf(sequenceItems, ItemsOf(CurrentQuestion))

-----------------------------------------------------------------------------
(* The pairs of a matching answer *)

\* Every pair of the selection map sel has a left item of q and one of the
\* right choices offered for q, which are not empty
PairsOffered(q, sel) ==
    \A i \in 1..Len(sel) :
        /\ sel[i].k \in LeftItems(q)
        /\ sel[i].v \in RightValues(q)
        /\ sel[i].v # ""

\* C32: whenever the answer of a matching question is committed or submitted,
\* it is the encoding of a selection map in which every pair has a left item
\* of that question and a right item that is one of the offered right choices
\* and not empty, also after the placeholder entry was selected for a left item.
C32_MatchingPairs ==
    [][(phase = "Active" /\ CurrentQuestion.type = MATCHING
        /\ (answers' # answers \/ submissions' # submissions))
       => /\ PairsOffered(CurrentQuestion, matchSelections)
          /\ answers' # answers
             => StoredAnswer(answers', currentIdx + 1) = EncodeMatching(matchSelections)
          /\ submissions' # submissions
             => Holds(LastSubmission(submissions').answers, CurrentQuestion.id,
                      EncodeMatching(matchSelections))]_vars

-----------------------------------------------------------------------------
(* Grading responses that repeat an identity *)

\* Sessions of one or two short-answer questions
ShortQuizzes == {ScoredQuestions(1), ScoredQuestions(2)}

\* Such a session finalized by a submission on its last question
InitShortGrade ==
    /\ questions \in ShortQuizzes
    /\ timeLimit = 0
    /\ answers \in GradeAnswerMaps
    /\ currentIdx = Len(questions) - 1
    /\ timeLeft = InitialTimeLeft(timeLimit)
    /\ sequenceItems = <<>>
    /\ matchSelections = EmptyObject
    /\ intervalActive = FALSE
    /\ phase = "Finalized"
    /\ submissions = <<[by |-> "next",
                        answers |-> GetFormattedAnswers(answers, CurrentQuestion,
                                       sequenceItems, matchSelections, questions)]>>
    /\ interacted = TRUE
    /\ apiKey \in BOOLEAN
    /\ gradeData = NoData
    /\ gradeOutcome = Pending
    /\ remoteCalls = {}
    /\ GenerateDone

NextShortGrade == Grade

SpecShortGrade == InitShortGrade /\ [][NextShortGrade]_vars

\* The number of graded records of a result with identity id
RecordsOf(r, id) ==
    Cardinality({n \in 1..Len(r.gradedQuestions) : r.gradedQuestions[n].id = id})

\* C33: every QuizResult gradeQuiz returns holds at most one graded record
\* for each identity of an original question, so no more graded records than
\* maxScore, a totalScore of at most maxScore and a percentage of at most 100,
\* for any grading response, also one that repeats an identity.
C33_OneRecordPerIdentity ==
    Has(gradeOutcome, "result")
    => LET r == gradeOutcome.result
       IN  /\ \A id \in QuestionIds : RecordsOf(r, id) <= 1
           /\ Len(r.gradedQuestions) <= r.maxScore
           /\ r.totalScore <= 2 * r.maxScore
           /\ Percentage(r) <= 100

-----------------------------------------------------------------------------
(* The tutor response and the expanded question *)

\* A tutor response is displayed in the card of gradedQuestions[i]
ResponseShown(i) == Expanded(i) /\ chatResponse # Null

\* C34: a tutor response displayed under an expanded graded question is the
\* answer to a query that was asked about that same question, whether the
\* expanded question was switched while the follow-up was in flight or after
\* its response had arrived.
C34_ResponseUnderItsQuestion ==
    result # NoData
    => \A i \in Cards :
          ResponseShown(i) => chatSource = Some(result.gradedQuestions[i].id)

====
